---- MODULE Spec2Model ----
(***************************************************************************)
(* The tamper-evident ledger of decentralized-guardian:                    *)
(*   src/src/blockchain_logger.py  BlockchainLogger (the Chain Builder,     *)
(*                                 the Ledger Store on SQLite, the         *)
(*                                 Integrity Verifier)                     *)
(*   src/src/Src/dashboard.py      GuardianDashboard and its endpoints     *)
(*                                 (read-only consumers of the table)      *)
(*                                                                         *)
(* The blocks table is the sequence `blocks` of committed rows in id       *)
(* order.  SHA-256 over the canonical JSON of a block is modelled as a     *)
(* collision-free function: the digest of a content is the content itself, *)
(* tagged.  Every digest is a tuple, so digests of any depth compare.      *)
(***************************************************************************)
EXTENDS Integers, Sequences, FiniteSets, TLC

\* ---------------------------------------------------------------- bounds
\* create_block calls in one behaviour of the concurrent specification
MaxCalls == 2
\* create_block calls in one behaviour of the sequential specifications
MaxSeqCalls == 3
\* values datetime.utcnow() takes (0..MaxTime); two calls may read the same
MaxTime == 1
\* direct edits of stored rows in one behaviour (SpecTamper only)
MaxTamper == 1
\* the largest limit passed to get_recent_logs in SpecQuery (0..MaxLimit)
MaxLimit == 4

\* ------------------------------------------------------------- constants
Threads  == {"t1", "t2"}
Builders == {"b1", "b2"}
NoThread == "none"
None     == "None"

\* "0" * 64
GENESIS == <<"0000000000000000000000000000000000000000000000000000000000000000">>

\* The producer's classified events, as test_blockchain builds them.  A key
\* the producer's dict does not hold reads as None through dict.get.
water_anomaly ==
    [sensor_id |-> "node_001", fund_id |-> None,
     anomalies |-> << <<"LOW_PH", "pH below limit">> >>, severity |-> "HIGH"]
fund_anomaly ==
    [sensor_id |-> None, fund_id |-> "FUND_7890",
     anomalies |-> << <<"HIGH_DISCREPANCY", "45% discrepancy">> >>,
     severity |-> "CRITICAL"]

VARIABLES
    blocks,           \* the committed rows of table blocks, in id order
    sqlite_sequence,  \* AUTOINCREMENT: the largest id ever committed
    db_lock,          \* the thread whose INSERT is executed and not yet committed
    chain,            \* chain[b]: self.chain of BlockchainLogger b
    pc,               \* pc[t]: where thread t stands in create_block
    frame,            \* frame[t]: the locals of t's create_block call
    result,           \* result[t]: what t's last create_block call gave its caller
    now,              \* the value datetime.utcnow() returns
    callsLeft,        \* create_block calls the producers have yet to make
    tamperLeft,       \* direct edits of stored rows yet to be made
    rd,               \* the reading caller: operation, what it fetched, what it got
    stats,            \* dashboard.stats
    upc               \* where background_updater stands in update_stats

vars == <<blocks, sqlite_sequence, db_lock, chain, pc, frame, result, now,
          callsLeft, tamperLeft, rd, stats, upc>>

writerVars == <<blocks, sqlite_sequence, db_lock, chain, pc, frame, result,
                callsLeft>>
dashVars == <<stats, upc>>

\* ------------------------------------------------------- pure functions

\* hashlib.sha256(json.dumps(block_data, sort_keys=True).encode()).hexdigest()
SHA256(block_data) == <<"sha256", block_data>>

\* the dict block_data that create_block hashes, from the call's locals
BlockData(f) ==
    [previous_hash |-> f.previous_hash, timestamp |-> f.timestamp,
     data_type |-> f.data_type, sensor_id |-> f.sensor_id, fund_id |-> f.fund_id,
     anomaly_type |-> f.anomaly_type, severity |-> f.severity, data |-> f.data]

\* anomaly_data.get("anomalies", [{}])[0][0] if anomaly_data.get("anomalies") else None
FirstAnomaly(anomaly_data) ==
    IF anomaly_data.anomalies # <<>> THEN anomaly_data.anomalies[1][1] ELSE None

\* SELECT * FROM blocks ORDER BY id DESC LIMIT 1; fetchone() or None.  Of the
\* row tuple the builder reads index 2 only; the model keeps columns 0..2
\* (id, previous_hash, current_hash), the ones the tuple of line 71 has too.
load_chain(rows) ==
    IF rows = <<>> THEN <<>>
    ELSE <<rows[Len(rows)].id, rows[Len(rows)].previous_hash,
           rows[Len(rows)].current_hash>>

\* (the tail read from column 1 of the cached tuple, the previous_hash)
CachedTailFromPreviousColumn(c) == IF c # <<>> THEN c[2] ELSE GENESIS

\* (the tail looked up in the table at every call, not in the cache)
StoredTail(c) ==
    IF blocks # <<>> THEN blocks[Len(blocks)].current_hash ELSE GENESIS

\* self.chain[2] if self.chain else "0" * 64
CachedTail(c) == IF c # <<>> THEN c[3] ELSE GENESIS

\* (the column declared without UNIQUE)
NoUniqueConstraint(rows, current_hash) == FALSE

\* current_hash TEXT UNIQUE
UniqueViolation(rows, current_hash) ==
    \E i \in 1..Len(rows) : rows[i].current_hash = current_hash

\* id INTEGER PRIMARY KEY AUTOINCREMENT: one more than the largest id the
\* table has held
NextRowId(rows, seq) ==
    1 + (IF rows # <<>> /\ rows[Len(rows)].id > seq THEN rows[Len(rows)].id ELSE seq)

\* the row the INSERT of create_block writes
NewRow(f, rowid) ==
    [id |-> rowid, previous_hash |-> f.previous_hash,
     current_hash |-> f.current_hash, timestamp |-> f.timestamp,
     data_type |-> f.data_type, sensor_id |-> f.sensor_id, fund_id |-> f.fund_id,
     anomaly_type |-> f.anomaly_type, severity |-> f.severity, data |-> f.data]

NoFrame ==
    [self |-> None, previous_hash |-> <<>>, current_hash |-> <<>>, timestamp |-> 0,
     data_type |-> None, sensor_id |-> None, fund_id |-> None,
     anomaly_type |-> None, severity |-> None, data |-> water_anomaly,
     lastrowid |-> 0]

NoResult ==
    [outcome |-> "none", block_id |-> 0, previous_hash |-> <<>>,
     current_hash |-> <<>>, timestamp |-> 0]

Raised(kind) == [NoResult EXCEPT !.outcome = kind]

\* the reading caller between two calls
Idle == [op |-> "idle", limit |-> 0, rows |-> <<>>, ret |-> <<>>]

\* ------------------------------------------------------------------ Init
Start(calls) ==
    /\ blocks = <<>>
    /\ sqlite_sequence = 0
    /\ db_lock = NoThread
    /\ chain = [b \in Builders |-> load_chain(<<>>)]
    /\ pc = [t \in Threads |-> "idle"]
    /\ frame = [t \in Threads |-> NoFrame]
    /\ result = [t \in Threads |-> NoResult]
    /\ now = 0
    /\ callsLeft = calls
    /\ tamperLeft = MaxTamper
    /\ rd = Idle
    /\ stats = [total_anomalies |-> 0, water_anomalies |-> 0,
                fund_anomalies |-> 0, critical_count |-> 0, last_update |-> 0]
    /\ upc = "idle"

\* a fresh database, every BlockchainLogger and the dashboard constructed over it
Init == Start(MaxCalls)
InitSeq == Start(MaxSeqCalls)

\* ------------------------------------------------ the Chain Builder

\* BlockchainLogger(db_path): init_db finds the table, load_chain seeds the
\* cache from the last row.  A new instance takes the place of b; no call
\* runs on an instance before its constructor has returned.
construct(b) ==
    /\ \A t \in Threads : frame[t].self # b
    /\ chain' = [chain EXCEPT ![b] = load_chain(blocks)]
    /\ UNCHANGED <<blocks, sqlite_sequence, db_lock, pc, frame, result, now,
                   callsLeft, tamperLeft, rd, dashVars>>

\* create_block is entered with its arguments bound; line 43 reads the clock
create_block(t, b, data_type, sensor_id, fund_id, anomaly_type, severity, data) ==
    /\ pc[t] = "idle"
    /\ callsLeft > 0
    /\ callsLeft' = callsLeft - 1
    /\ frame' = [frame EXCEPT ![t] =
                    [NoFrame EXCEPT !.self = b, !.timestamp = now,
                        !.data_type = data_type, !.sensor_id = sensor_id,
                        !.fund_id = fund_id, !.anomaly_type = anomaly_type,
                        !.severity = severity, !.data = data]]
    /\ result' = [result EXCEPT ![t] = NoResult]
    /\ pc' = [pc EXCEPT ![t] = "read_tail"]
    /\ UNCHANGED <<blocks, sqlite_sequence, db_lock, chain, now,
                   tamperLeft, rd, dashVars>>

log_water_anomaly(t, b, anomaly_data) ==
    create_block(t, b, "WATER_ANOMALY", anomaly_data.sensor_id, None,
                 FirstAnomaly(anomaly_data), anomaly_data.severity, anomaly_data)

log_fund_anomaly(t, b, anomaly_data) ==
    create_block(t, b, "FUND_ANOMALY", None, anomaly_data.fund_id,
                 FirstAnomaly(anomaly_data), anomaly_data.severity, anomaly_data)

\* lines 45-59: previous_hash from the cache, then the digest of block_data
TailRead(f, c) ==
    LET g == [f EXCEPT !.previous_hash = CachedTail(c)]
    IN  [g EXCEPT !.current_hash = SHA256(BlockData(g))]

read_tail(t) ==
    /\ pc[t] = "read_tail"
    /\ frame' = [frame EXCEPT ![t] = TailRead(frame[t], chain[frame[t].self])]
    /\ pc' = [pc EXCEPT ![t] = "execute"]
    /\ UNCHANGED <<blocks, sqlite_sequence, db_lock, chain, result, now, callsLeft,
                   tamperLeft, rd, dashVars>>

\* the call ends in an exception: nothing after the raising line runs
RaiseFrom(t, kind) ==
    /\ result' = [result EXCEPT ![t] = Raised(kind)]
    /\ frame' = [frame EXCEPT ![t] = NoFrame]
    /\ pc' = [pc EXCEPT ![t] = "idle"]

\* lines 61-67: cursor.execute(INSERT ...) takes the write lock, checks the
\* UNIQUE constraint against the table and assigns the id.  The row stays in
\* the connection's open transaction until line 68 commits it.
execute_insert(t) ==
    /\ pc[t] = "execute"
    /\ db_lock = NoThread
    /\ IF UniqueViolation(blocks, frame[t].current_hash)
       THEN /\ RaiseFrom(t, "IntegrityError")
            /\ UNCHANGED <<blocks, sqlite_sequence, db_lock, chain>>
       ELSE /\ frame' = [frame EXCEPT ![t].lastrowid =
                                        NextRowId(blocks, sqlite_sequence)]
            /\ db_lock' = t
            /\ pc' = [pc EXCEPT ![t] = "commit"]
            /\ UNCHANGED <<blocks, sqlite_sequence, chain, result>>
    /\ UNCHANGED <<now, callsLeft, tamperLeft, rd, dashVars>>

\* (the cache written before the INSERT is known to have succeeded)
execute_raises_after_caching(t) ==
    /\ pc[t] = "execute"
    /\ RaiseFrom(t, "OperationalError")
    /\ chain' = [chain EXCEPT ![frame[t].self] =
                    <<NextRowId(blocks, sqlite_sequence), frame[t].previous_hash,
                      frame[t].current_hash>>]
    /\ UNCHANGED <<blocks, sqlite_sequence, db_lock, now, callsLeft,
                   tamperLeft, rd, dashVars>>

\* lines 61-67 when the storage refuses the write (the database stays locked
\* by another connection past the busy timeout, the disk is full, ...)
execute_raises(t) ==
    /\ pc[t] = "execute"
    /\ RaiseFrom(t, "OperationalError")
    /\ UNCHANGED <<blocks, sqlite_sequence, db_lock, chain, now, callsLeft,
                   tamperLeft, rd, dashVars>>

\* (the row written over the last one, as INSERT OR REPLACE on a reused id)
CommittedOverTail(rows, f) ==
    IF rows = <<>> THEN <<NewRow(f, f.lastrowid)>>
    ELSE Append(SubSeq(rows, 1, Len(rows) - 1), NewRow(f, Len(rows)))

\* the table after the transaction of t commits
Committed(rows, f) == Append(rows, NewRow(f, f.lastrowid))

\* lines 68-69: conn.commit() makes the row durable and visible
commit(t) ==
    /\ pc[t] = "commit"
    /\ db_lock = t
    /\ blocks' = Committed(blocks, frame[t])
    /\ sqlite_sequence' = frame[t].lastrowid
    /\ db_lock' = NoThread
    /\ pc' = [pc EXCEPT ![t] = "update_cache"]
    /\ UNCHANGED <<chain, frame, result, now, callsLeft, tamperLeft, rd,
                   dashVars>>

\* (a failed commit whose id is not given back, as a sequence outside the
\* transaction would do)
commit_raises_keeps_id(t) ==
    /\ pc[t] = "commit"
    /\ db_lock = t
    /\ db_lock' = NoThread
    /\ sqlite_sequence' = frame[t].lastrowid
    /\ RaiseFrom(t, "OperationalError")
    /\ UNCHANGED <<blocks, chain, now, callsLeft, tamperLeft, rd, dashVars>>

\* line 68 when the commit fails: the transaction is rolled back
commit_raises(t) ==
    /\ pc[t] = "commit"
    /\ db_lock = t
    /\ db_lock' = NoThread
    /\ RaiseFrom(t, "OperationalError")
    /\ UNCHANGED <<blocks, sqlite_sequence, chain, now, callsLeft, tamperLeft, rd,
                   dashVars>>

\* line 71: the new cached tail
NewTail(f) == <<f.lastrowid, f.previous_hash, f.current_hash>>

\* (the id taken as the number of rows at the time of the return, not the
\* cursor's lastrowid)
ReturnedRowCount(f) ==
    [outcome |-> "returned", block_id |-> Len(blocks),
     previous_hash |-> f.previous_hash, current_hash |-> f.current_hash,
     timestamp |-> f.timestamp]

\* lines 73-79: the dict create_block returns
Returned(f) ==
    [outcome |-> "returned", block_id |-> f.lastrowid,
     previous_hash |-> f.previous_hash, current_hash |-> f.current_hash,
     timestamp |-> f.timestamp]

\* lines 71-79
update_cache(t) ==
    /\ pc[t] = "update_cache"
    /\ chain' = [chain EXCEPT ![frame[t].self] = NewTail(frame[t])]
    /\ result' = [result EXCEPT ![t] = Returned(frame[t])]
    /\ frame' = [frame EXCEPT ![t] = NoFrame]
    /\ pc' = [pc EXCEPT ![t] = "idle"]
    /\ UNCHANGED <<blocks, sqlite_sequence, db_lock, now, callsLeft,
                   tamperLeft, rd, dashVars>>

\* the clock moves on
Tick ==
    /\ now < MaxTime
    /\ now' = now + 1
    /\ UNCHANGED <<writerVars, tamperLeft, rd, dashVars>>

\* ------------------------------------------- the Integrity Verifier

\* (line 113 comparing with column 1 of the row before, not column 2)
RECURSIVE FirstBreakOnPreviousColumn(_, _)
FirstBreakOnPreviousColumn(rows, i) ==
    IF i > Len(rows) THEN 0
    ELSE IF rows[i].previous_hash # rows[i - 1].previous_hash THEN i
    ELSE FirstBreakOnPreviousColumn(rows, i + 1)

\* lines 109-120: the first i in range(1, len(blocks)) whose previous_hash is
\* not the current_hash of the row before it; 0 when the loop runs out
RECURSIVE FirstBreak(_, _)
FirstBreak(rows, i) ==
    IF i > Len(rows) THEN 0
    ELSE IF rows[i].previous_hash # rows[i - 1].current_hash THEN i
    ELSE FirstBreak(rows, i + 1)

\* the dicts verify_chain returns; a key a dict does not hold is 0 or <<>>
Verdict(status, valid, block_count, block_id, expected, actual) ==
    [status |-> status, valid |-> valid, block_count |-> block_count,
     block_id |-> block_id, expected_previous |-> expected,
     actual_previous |-> actual]

\* lines 106-122, on the rows of SELECT * FROM blocks ORDER BY id
VerifyChain(rows) ==
    IF rows = <<>> THEN Verdict("EMPTY_CHAIN", TRUE, 0, 0, <<>>, <<>>)
    ELSE LET i == FirstBreak(rows, 2)
         IN  IF i # 0
             THEN Verdict("INVALID_CHAIN", FALSE, 0, rows[i].id,
                          rows[i - 1].current_hash, rows[i].previous_hash)
             ELSE Verdict("VALID_CHAIN", TRUE, Len(rows), 0, <<>>, <<>>)

\* (a read that also sees the row of a transaction not yet committed)
SelectUncommitted(rows) ==
    IF db_lock = NoThread THEN rows
    ELSE Append(rows, NewRow(frame[db_lock], frame[db_lock].lastrowid))

\* what a SELECT of another connection sees: the committed rows
Select(rows) == rows

verify_chain ==
    /\ rd' = [op |-> "verify_chain", limit |-> 0, rows |-> Select(blocks),
              ret |-> VerifyChain(Select(blocks))]
    /\ UNCHANGED <<writerVars, now, tamperLeft, dashVars>>

\* ------------------------------------------------------------ queries

Min(a, b) == IF a < b THEN a ELSE b

\* (the rows in the order of the table, ORDER BY id without DESC)
RecentRowsAscending(rows, limit) ==
    [k \in 1..Min(limit, Len(rows)) |-> rows[k]]

\* SELECT * FROM blocks ORDER BY id DESC LIMIT ?, for a limit >= 0
RecentRows(rows, limit) ==
    [k \in 1..Min(limit, Len(rows)) |-> rows[Len(rows) + 1 - k]]

\* lines 131-144: the dict of one log (the data column is left out)
LogDict(row) ==
    [id |-> row.id, previous_hash |-> row.previous_hash,
     current_hash |-> row.current_hash, timestamp |-> row.timestamp,
     data_type |-> row.data_type, sensor_id |-> row.sensor_id,
     fund_id |-> row.fund_id, anomaly_type |-> row.anomaly_type,
     severity |-> row.severity]

GetRecentLogs(rows, limit) ==
    [k \in 1..Len(RecentRows(rows, limit)) |-> LogDict(RecentRows(rows, limit)[k])]

get_recent_logs(limit) ==
    /\ rd' = [op |-> "get_recent_logs", limit |-> limit, rows |-> Select(blocks),
              ret |-> GetRecentLogs(Select(blocks), limit)]
    /\ UNCHANGED <<writerVars, now, tamperLeft, dashVars>>

\* ----------------------------------------------------- the dashboard

\* SELECT COUNT(*) FROM blocks [WHERE column = value]
CountAll(rows) == Len(rows)
CountDataType(rows, v) == Cardinality({i \in 1..Len(rows) : rows[i].data_type = v})
CountSeverity(rows, v) == Cardinality({i \in 1..Len(rows) : rows[i].severity = v})

\* update_stats, one SELECT and the assignment of its count at a time
update_stats_total ==
    /\ upc = "idle"
    /\ stats' = [stats EXCEPT !.total_anomalies = CountAll(Select(blocks))]
    /\ upc' = "water"
    /\ UNCHANGED <<writerVars, now, tamperLeft, rd>>

update_stats_water ==
    /\ upc = "water"
    /\ stats' = [stats EXCEPT !.water_anomalies =
                                 CountDataType(Select(blocks), "WATER_ANOMALY")]
    /\ upc' = "fund"
    /\ UNCHANGED <<writerVars, now, tamperLeft, rd>>

update_stats_fund ==
    /\ upc = "fund"
    /\ stats' = [stats EXCEPT !.fund_anomalies =
                                 CountDataType(Select(blocks), "FUND_ANOMALY")]
    /\ upc' = "critical"
    /\ UNCHANGED <<writerVars, now, tamperLeft, rd>>

\* lines 36-41
update_stats_critical ==
    /\ upc = "critical"
    /\ stats' = [stats EXCEPT !.critical_count =
                                 CountSeverity(Select(blocks), "CRITICAL"),
                              !.last_update = now]
    /\ upc' = "idle"
    /\ UNCHANGED <<writerVars, now, tamperLeft, rd>>

\* lines 42-43: a SELECT raises and the except clause passes; the counters
\* assigned so far stay
update_stats_raises ==
    /\ upc # "idle"
    /\ upc' = "idle"
    /\ UNCHANGED <<writerVars, now, tamperLeft, rd, stats>>

\* /api/stats: jsonify(dashboard.stats)
get_stats ==
    /\ rd' = [op |-> "get_stats", limit |-> 0, rows |-> <<>>, ret |-> stats]
    /\ UNCHANGED <<writerVars, now, tamperLeft, dashVars>>

\* lines 58-69: the dict of one alert
AlertDict(row) ==
    [timestamp |-> row.timestamp, type |-> row.data_type,
     sensor_id |-> row.sensor_id, fund_id |-> row.fund_id,
     anomaly |-> row.anomaly_type, severity |-> row.severity,
     icon |-> IF row.data_type = "WATER_ANOMALY" THEN "water" ELSE "fund"]

\* the orders ORDER BY timestamp DESC may give: rows of one timestamp come
\* in any order
TimestampOrders(rows) ==
    {f \in [1..Len(rows) -> 1..Len(rows)] :
        /\ \A i, j \in 1..Len(rows) : i # j => f[i] # f[j]
        /\ \A i \in 1..Len(rows) - 1 :
              rows[f[i]].timestamp >= rows[f[i + 1]].timestamp}

\* lines 45-71
get_recent_alerts(limit) ==
    /\ \E f \in TimestampOrders(Select(blocks)) :
          rd' = [op |-> "get_recent_alerts", limit |-> limit,
                 rows |-> Select(blocks),
                 ret |-> [k \in 1..Min(limit, Len(blocks)) |->
                             AlertDict(Select(blocks)[f[k]])]]
    /\ UNCHANGED <<writerVars, now, tamperLeft, dashVars>>

\* lines 129-134: the joined pairs of rows whose link is broken
IntegrityIssues(rows) ==
    Cardinality({p \in (1..Len(rows)) \X (1..Len(rows)) :
                    /\ rows[p[1]].id = rows[p[2]].id - 1
                    /\ rows[p[1]].current_hash # rows[p[2]].previous_hash})

\* lines 124-127 of verify_blockchain: the first SELECT
verify_blockchain_count ==
    /\ rd' = [op |-> "verify_blockchain_count", limit |-> 0, rows |-> <<>>,
              ret |-> CountAll(Select(blocks))]
    /\ UNCHANGED <<writerVars, now, tamperLeft, dashVars>>

\* lines 129-142: the second SELECT and the reply
verify_blockchain ==
    /\ rd.op = "verify_blockchain_count"
    /\ rd' = [op |-> "verify_blockchain", limit |-> 0, rows |-> Select(blocks),
              ret |-> [block_count |-> rd.ret,
                       integrity_issues |-> IntegrityIssues(Select(blocks)),
                       chain_valid |-> IntegrityIssues(Select(blocks)) = 0]]
    /\ UNCHANGED <<writerVars, now, tamperLeft, dashVars>>

\* the argument values of limit that the callers pass
Limits == {1, 5}

Writer(t, B) ==
    \/ \E b \in B : log_water_anomaly(t, b, water_anomaly)
    \/ \E b \in B : log_fund_anomaly(t, b, fund_anomaly)
    \/ read_tail(t)
    \/ execute_insert(t)
    \/ execute_raises(t)
    \/ commit(t)
    \/ commit_raises(t)
    \/ update_cache(t)

Reader ==
    \/ verify_chain
    \/ \E limit \in Limits : get_recent_logs(limit)

Dashboard ==
    \/ update_stats_total
    \/ update_stats_water
    \/ update_stats_fund
    \/ update_stats_critical
    \/ update_stats_raises
    \/ get_stats
    \/ \E limit \in Limits : get_recent_alerts(limit)
    \/ verify_blockchain_count
    \/ verify_blockchain

\* producers on two threads over two BlockchainLogger instances of one
\* database, and a reading caller
Next ==
    \/ Tick
    \/ \E b \in Builders : construct(b)
    \/ \E t \in Threads : Writer(t, Builders)
    \/ Reader

Spec == Init /\ [][Next]_vars

\* one producer thread that calls either BlockchainLogger instance, with the
\* reading caller and the dashboard (its background updater and its
\* endpoints) running beside it
NextRead ==
    \/ \E b \in Builders : construct(b)
    \/ Writer("t1", Builders)
    \/ Reader
    \/ Dashboard

SpecRead == Init /\ [][NextRead]_vars

\* one BlockchainLogger used by one caller, one call after the other
NextSeq ==
    \/ Tick
    \/ construct("b1")
    \/ Writer("t1", {"b1"})
    \/ Reader

SpecSeq == InitSeq /\ [][NextSeq]_vars

\* one BlockchainLogger used sequentially and a caller of get_recent_logs
\* that passes every limit from 0 to beyond the number of rows
NextQuery ==
    \/ Tick
    \/ construct("b1")
    \/ Writer("t1", {"b1"})
    \/ \E limit \in 0..MaxLimit : get_recent_logs(limit)

SpecQuery == InitSeq /\ [][NextQuery]_vars

\* ------------------------------------- direct edits of the stored rows

\* a digest no block of the ledger has
FORGED == <<"forged">>

\* UPDATE blocks SET previous_hash = ? WHERE id = ?, issued on the database
\* file by someone who bypasses create_block
tamper_previous_hash(i, d) ==
    /\ tamperLeft > 0
    /\ db_lock = NoThread
    /\ i \in 1..Len(blocks)
    /\ d # blocks[i].previous_hash
    /\ blocks' = [blocks EXCEPT ![i].previous_hash = d]
    /\ tamperLeft' = tamperLeft - 1
    /\ UNCHANGED <<sqlite_sequence, db_lock, chain, pc, frame, result, now,
                   callsLeft, rd, dashVars>>

\* UPDATE blocks SET current_hash = ? WHERE id = ?; the column stays UNIQUE
tamper_current_hash(i, d) ==
    /\ tamperLeft > 0
    /\ db_lock = NoThread
    /\ i \in 1..Len(blocks)
    /\ ~UniqueViolation(blocks, d)
    /\ blocks' = [blocks EXCEPT ![i].current_hash = d]
    /\ tamperLeft' = tamperLeft - 1
    /\ UNCHANGED <<sqlite_sequence, db_lock, chain, pc, frame, result, now,
                   callsLeft, rd, dashVars>>

ContentColumns ==
    {"timestamp", "data_type", "sensor_id", "fund_id", "anomaly_type",
     "severity", "data"}

\* the row with one content column set to a value it did not hold
Edited(row, column) ==
    CASE column = "timestamp"    -> [row EXCEPT !.timestamp = row.timestamp + 1]
      [] column = "data_type"    -> [row EXCEPT !.data_type = "OTHER"]
      [] column = "sensor_id"    -> [row EXCEPT !.sensor_id = "node_666"]
      [] column = "fund_id"      -> [row EXCEPT !.fund_id = "FUND_0000"]
      [] column = "anomaly_type" -> [row EXCEPT !.anomaly_type = "NOTHING"]
      [] column = "severity"     -> [row EXCEPT !.severity = "LOW"]
      [] column = "data"         -> [row EXCEPT !.data.severity = "LOW"]

\* UPDATE blocks SET <content column> = ? WHERE id = ?
tamper_content(i, column) ==
    /\ tamperLeft > 0
    /\ db_lock = NoThread
    /\ i \in 1..Len(blocks)
    /\ blocks' = [blocks EXCEPT ![i] = Edited(blocks[i], column)]
    /\ tamperLeft' = tamperLeft - 1
    /\ UNCHANGED <<sqlite_sequence, db_lock, chain, pc, frame, result, now,
                   callsLeft, rd, dashVars>>

Tamper ==
    \/ \E i \in 1..MaxSeqCalls, d \in {GENESIS, FORGED} : tamper_previous_hash(i, d)
    \/ \E i \in 1..MaxSeqCalls : tamper_current_hash(i, FORGED)
    \/ \E i \in 1..MaxSeqCalls, c \in ContentColumns : tamper_content(i, c)

\* the sequential builder and reader over a table that is also edited directly
NextTamper ==
    \/ NextSeq
    \/ Tamper

SpecTamper == InitSeq /\ [][NextTamper]_vars

\* UPDATE blocks SET current_hash = ? WHERE id = 1, issued while the first
\* block is the only one stored (no INSERT of a second one is executed yet)
corrupt_first_digest ==
    /\ Len(blocks) = 1
    /\ tamper_current_hash(1, FORGED)

\* one BlockchainLogger instance, never constructed anew, used sequentially;
\* the stored digest of its first block is overwritten before it appends
\* the second
NextCorrupt ==
    \/ Tick
    \/ Writer("t1", {"b1"})
    \/ corrupt_first_digest
    \/ verify_chain

SpecCorrupt == InitSeq /\ [][NextCorrupt]_vars

\* the sequence without its i-th element
Without(rows, i) ==
    [k \in 1..Len(rows) - 1 |-> IF k < i THEN rows[k] ELSE rows[k + 1]]

\* DELETE FROM blocks WHERE id = ?, issued on the database file; the
\* AUTOINCREMENT sequence keeps the largest id given out
tamper_delete(i) ==
    /\ tamperLeft > 0
    /\ db_lock = NoThread
    /\ i \in 1..Len(blocks)
    /\ blocks' = Without(blocks, i)
    /\ tamperLeft' = tamperLeft - 1
    /\ UNCHANGED <<sqlite_sequence, db_lock, chain, pc, frame, result, now,
                   callsLeft, rd, dashVars>>

\* the reply of /api/blockchain/verify from its two SELECTs
VerifyReply(block_count, rows) ==
    [block_count |-> block_count,
     integrity_issues |-> IntegrityIssues(rows),
     chain_valid |-> IntegrityIssues(rows) = 0]

\* lines 121-142 of the dashboard with no write between the two SELECTs:
\* both read the same table
verify_blockchain_request ==
    /\ rd' = [op |-> "verify_blockchain", limit |-> 0, rows |-> Select(blocks),
              ret |-> VerifyReply(CountAll(Select(blocks)), Select(blocks))]
    /\ UNCHANGED <<writerVars, now, tamperLeft, dashVars>>

\* one producer thread over both BlockchainLogger instances (which fork the
\* chain), a table that is also edited and pruned directly, and a caller of
\* verify_chain and of /api/blockchain/verify
NextVerify ==
    \/ \E b \in Builders : construct(b)
    \/ Writer("t1", Builders)
    \/ Tamper
    \/ \E i \in 1..MaxSeqCalls : tamper_delete(i)
    \/ verify_chain
    \/ verify_blockchain_request

SpecVerify == InitSeq /\ [][NextVerify]_vars

\* ------------------------------- the verifier the specification describes

\* the digest recomputed from the stored columns of a row
Recompute(row) ==
    SHA256([previous_hash |-> row.previous_hash, timestamp |-> row.timestamp,
            data_type |-> row.data_type, sensor_id |-> row.sensor_id,
            fund_id |-> row.fund_id, anomaly_type |-> row.anomaly_type,
            severity |-> row.severity, data |-> row.data])

\* section 4.4: expected_previous starts as the genesis sentinel and becomes
\* the current_digest of each block passed; the first block that does not
\* carry it, 0 when there is none
RECURSIVE LedgerFirstBreak(_, _, _)
LedgerFirstBreak(rows, i, expected_previous) ==
    IF i > Len(rows) THEN 0
    ELSE IF rows[i].previous_hash # expected_previous THEN i
    ELSE LedgerFirstBreak(rows, i + 1, rows[i].current_hash)

ExpectedPrevious(rows, i) == IF i = 1 THEN GENESIS ELSE rows[i - 1].current_hash

\* section 4.4: EmptyChain, ChainBroken{at_sequence_id, expected, actual} or
\* ChainValid{block_count}, written as the dicts of verify_chain
LedgerVerify(rows) ==
    IF rows = <<>> THEN Verdict("EMPTY_CHAIN", TRUE, 0, 0, <<>>, <<>>)
    ELSE LET i == LedgerFirstBreak(rows, 1, GENESIS)
         IN  IF i # 0
             THEN Verdict("INVALID_CHAIN", FALSE, 0, rows[i].id,
                          ExpectedPrevious(rows, i), rows[i].previous_hash)
             ELSE Verdict("VALID_CHAIN", TRUE, Len(rows), 0, <<>>, <<>>)

\* section 4.4, deep verify: the blocks whose stored current_digest is not
\* the digest of their stored fields
PayloadTampered(rows) ==
    {i \in 1..Len(rows) : Recompute(rows[i]) # rows[i].current_hash}

\* ---------------------------------------------------------- properties

AllIdle == \A t \in Threads : pc[t] = "idle"

IsPrefix(s, r) == Len(s) <= Len(r) /\ \A i \in 1..Len(s) : s[i] = r[i]

Errors == {"IntegrityError", "OperationalError"}

\* C1: when K concurrent create_block calls have all gone through, the store
\* holds K blocks with ids 1..K and verify_chain finds VALID_CHAIN with
\* block_count K.  (Stated for the runs in which no call raised.)
C1_ConcurrentAppendsKeepOneChain ==
    (AllIdle /\ callsLeft = 0 /\ Len(blocks) = MaxCalls)
        => /\ \A i \in 1..Len(blocks) : blocks[i].id = i
           /\ VerifyChain(blocks) =
                  Verdict("VALID_CHAIN", TRUE, MaxCalls, 0, <<>>, <<>>)

\* C2: with one builder used sequentially, the block with id 1 has the
\* genesis sentinel as previous_hash and every block with id N > 1 has the
\* current_hash of the block with id N - 1 as previous_hash.
C2_EachBlockLinksToItsPredecessor ==
    \A i \in 1..Len(blocks) :
        /\ blocks[i].id = 1 => blocks[i].previous_hash = GENESIS
        /\ \A j \in 1..Len(blocks) :
              blocks[i].id = blocks[j].id + 1
                  => blocks[i].previous_hash = blocks[j].current_hash

\* three calls on one builder, one of which raised: two linked blocks
C2_Witness ==
    /\ pc["t1"] = "idle" /\ callsLeft = 0
    /\ Len(blocks) = MaxSeqCalls - 1
    /\ blocks[1].previous_hash = GENESIS
    /\ blocks[2].previous_hash = blocks[1].current_hash

\* C3: the ids of the persisted blocks, read in ascending order, are 1..N
\* for the N appends that succeeded, whatever appends failed between them.
C3_SequenceIdsGapFree ==
    /\ \A i \in 1..Len(blocks) : blocks[i].id = i
    /\ \A t \in Threads :
          result[t].outcome = "returned" => result[t].block_id \in 1..Len(blocks)

\* both calls are over, one raised and the other one's block has id 1
C3_Witness ==
    /\ AllIdle /\ callsLeft = 0
    /\ \E t, u \in Threads :
          /\ result[t].outcome \in Errors
          /\ result[u].outcome = "returned" /\ result[u].block_id = 1
    /\ Len(blocks) = 1 /\ blocks[1].id = 1

\* C4: on a ledger written by one builder and never edited, verify_chain
\* returns VALID_CHAIN with block_count N for its N >= 1 rows, and
\* EMPTY_CHAIN (valid) for none.
C4_VerifyUntouchedLedger ==
    rd.op = "verify_chain"
        => rd.ret = IF Len(rd.rows) = 0
                    THEN Verdict("EMPTY_CHAIN", TRUE, 0, 0, <<>>, <<>>)
                    ELSE Verdict("VALID_CHAIN", TRUE, Len(rd.rows), 0, <<>>, <<>>)

\* a water event, then a fund event, then verify_chain: VALID_CHAIN, 2 blocks
C4_Witness ==
    /\ rd.op = "verify_chain" /\ rd.rows = blocks /\ Len(blocks) = 2
    /\ blocks[1].data_type = "WATER_ANOMALY" /\ blocks[1].id = 1
    /\ blocks[2].data_type = "FUND_ANOMALY" /\ blocks[2].id = 2
    /\ blocks[2].previous_hash = blocks[1].current_hash
    /\ rd.ret.status = "VALID_CHAIN" /\ rd.ret.block_count = 2

\* C5: verify_chain reports, for any stored ledger, the break at the first
\* block whose previous_hash is not the expected one (the genesis sentinel
\* for the first block), with the expected and the actual value.
C5_VerifyReportsFirstBreak ==
    rd.op = "verify_chain" => rd.ret = LedgerVerify(rd.rows)

\* the stored digests of the row are those of a block with other content:
\* current_hash is the digest of a block that had this previous_hash and
\* differs from the stored columns
ContentEdited(row) ==
    /\ row.current_hash[1] = "sha256"
    /\ row.current_hash[2].previous_hash = row.previous_hash
    /\ row.current_hash # Recompute(row)

\* C6: a content column of a stored block edited in place, both digests left
\* alone, is not reported as a valid chain by the verification.
C6_EditedContentIsDetected ==
    (rd.op = "verify_chain" /\ \E i \in PayloadTampered(rd.rows) :
                                  ContentEdited(rd.rows[i]))
        => rd.ret.valid = FALSE

\* the call of t ends in an exception in this step
Raises(t) == result[t].outcome = "none" /\ result'[t].outcome \in Errors

\* C7: a create_block call whose INSERT or commit fails raises to its
\* caller before it has written anything: in the step that raises, the
\* table, its id sequence and every builder's cached tail stay as they are,
\* and the call is over (no further INSERT of that call follows).
C7_FailedAppendChangesNothing ==
    [][\A t \in Threads :
          Raises(t) => /\ pc[t] \in {"execute", "commit"}
                       /\ blocks' = blocks
                       /\ sqlite_sequence' = sqlite_sequence
                       /\ chain' = chain
                       /\ pc'[t] = "idle" /\ frame'[t] = NoFrame]_vars

\* a duplicate digest was refused: the builder's cache is still empty and
\* the one block of the store is another builder's
C7_Witness ==
    \E t \in Threads :
        /\ result[t].outcome = "IntegrityError" /\ pc[t] = "idle"
        /\ Len(blocks) = 1
        /\ \E b \in Builders : chain[b] = <<>>

\* C8: no two persisted blocks have the same current_hash, and an INSERT
\* that the table accepted carried a digest no persisted block had.
C8_DigestsUnique ==
    /\ \A i, j \in 1..Len(blocks) :
          i # j => blocks[i].current_hash # blocks[j].current_hash
    /\ \A t \in Threads :
          pc[t] = "commit" => ~UniqueViolation(blocks, frame[t].current_hash)

\* two calls computed the same digest: one is stored, the other was refused
C8_Witness ==
    \E t, u \in Threads :
        /\ result[t].outcome = "IntegrityError"
        /\ result[u].outcome = "returned"
        /\ \E i \in 1..Len(blocks) : blocks[i].current_hash = result[u].current_hash
        /\ Len(blocks) = 1

\* C9: the table changes only by the commit of a create_block call, which
\* adds one row after the rows there and leaves those as they are; every
\* step of the reading caller, of the dashboard and of load_chain leaves
\* the table as it is.
C9_AppendOnly ==
    [][/\ blocks' # blocks
          => /\ \E t \in Threads : pc[t] = "commit" /\ pc'[t] = "update_cache"
             /\ Len(blocks') = Len(blocks) + 1
             /\ \A i \in 1..Len(blocks) : blocks'[i] = blocks[i]
       /\ (rd' # rd \/ stats' # stats \/ upc' # upc \/ chain' # chain)
          => blocks' = blocks]_vars

\* the second block has just been committed behind the first, on which
\* update_stats has run; verify_chain has found the break between the two
\* and the table still holds what it fetched
C9_Witness ==
    /\ Len(blocks) = 2 /\ pc["t1"] = "update_cache"
    /\ rd.op = "verify_chain" /\ rd.ret.status = "INVALID_CHAIN"
    /\ rd.rows = blocks
    /\ stats.total_anomalies = 1 /\ upc = "idle"

ReadsRows == {"verify_chain", "get_recent_logs", "get_recent_alerts", "verify_blockchain"}

\* the counters a COUNT over some prefix of the table gives
PrefixCounts(rows, column, v) ==
    {Cardinality({i \in 1..m : rows[i][column] = v}) : m \in 0..Len(rows)}

\* C10: what a reader has fetched is a prefix of the committed blocks, now
\* and whatever is appended later, each block with all its columns and the
\* digest of those columns; each counter of the dashboard is the count over
\* such a prefix.
C10_ReadersSeeCommittedPrefix ==
    /\ rd.op \in ReadsRows
          => /\ IsPrefix(rd.rows, blocks)
             /\ \A i \in 1..Len(rd.rows) :
                   /\ rd.rows[i].id = i
                   /\ rd.rows[i].current_hash = Recompute(rd.rows[i])
    /\ rd.op = "verify_blockchain_count" => rd.ret \in 0..Len(blocks)
    /\ stats.total_anomalies \in 0..Len(blocks)
    /\ stats.water_anomalies \in PrefixCounts(blocks, "data_type", "WATER_ANOMALY")
    /\ stats.fund_anomalies \in PrefixCounts(blocks, "data_type", "FUND_ANOMALY")
    /\ stats.critical_count \in PrefixCounts(blocks, "severity", "CRITICAL")

\* verify_chain fetched one block and update_stats counted one; a second
\* block has been committed since
C10_Witness ==
    /\ rd.op = "verify_chain" /\ Len(rd.rows) = 1
    /\ Len(blocks) = 2 /\ rd.rows[1] = blocks[1]
    /\ stats.total_anomalies = 1 /\ upc = "water"

\* the row of the table with this id, as a set (empty when there is none)
RowsWithId(rows, id) == {rows[i] : i \in {j \in 1..Len(rows) : rows[j].id = id}}

\* C11: what a create_block call returned is the block it persisted: the
\* table holds exactly one row with the returned block_id, and that row's
\* current_hash, previous_hash and timestamp are the returned ones, whatever
\* other callers append at the same time.
C11_ReturnedBlockIsThePersistedOne ==
    \A t \in Threads :
        result[t].outcome = "returned"
            => /\ Cardinality(RowsWithId(blocks, result[t].block_id)) = 1
               /\ \A row \in RowsWithId(blocks, result[t].block_id) :
                     /\ row.current_hash = result[t].current_hash
                     /\ row.previous_hash = result[t].previous_hash
                     /\ row.timestamp = result[t].timestamp

\* two threads appended one block each with different digests; each was
\* returned the id and the digest of its own block
C11_Witness ==
    /\ AllIdle /\ Len(blocks) = 2
    /\ result["t1"].outcome = "returned" /\ result["t1"].block_id = 1
    /\ result["t2"].outcome = "returned" /\ result["t2"].block_id = 2
    /\ blocks[1].current_hash = result["t1"].current_hash
    /\ blocks[2].current_hash = result["t2"].current_hash
    /\ blocks[1].current_hash # blocks[2].current_hash

\* C12: get_recent_logs(limit) on a table of N rows returns min(limit, N)
\* dicts, each the dict of a stored row; their ids are strictly descending
\* and no row left out has an id above one returned; for N = 0 it returns
\* the empty list.
C12_RecentLogsAreTheNewestDescending ==
    rd.op = "get_recent_logs"
        => LET N == Len(rd.rows)
               logs == rd.ret
               returned == {logs[k].id : k \in 1..Len(logs)}
           IN  /\ Len(logs) = Min(rd.limit, N)
               /\ N = 0 => logs = <<>>
               /\ \A k \in 1..Len(logs) :
                     \E i \in 1..N : logs[k] = LogDict(rd.rows[i])
               /\ \A k \in 1..Len(logs) - 1 : logs[k].id > logs[k + 1].id
               /\ \A i \in 1..N :
                     rd.rows[i].id \notin returned
                         => \A id \in returned : rd.rows[i].id < id

\* three blocks stored, limit 2: the logs of blocks 3 and 2, in that order
C12_Witness ==
    /\ rd.op = "get_recent_logs" /\ rd.limit = 2
    /\ rd.rows = blocks /\ Len(blocks) = 3
    /\ Len(rd.ret) = 2 /\ rd.ret[1].id = 3 /\ rd.ret[2].id = 2

\* C13: the store never forks: no two persisted blocks have the same
\* previous_hash, and each block's previous_hash is the current_hash of the
\* block that was the last of the table when it was inserted (the genesis
\* sentinel for the first), whatever threads and BlockchainLogger instances
\* append.
C13_NoFork ==
    /\ \A i, j \in 1..Len(blocks) :
          i # j => blocks[i].previous_hash # blocks[j].previous_hash
    /\ \A i \in 1..Len(blocks) :
          blocks[i].previous_hash =
              IF i = 1 THEN GENESIS ELSE blocks[i - 1].current_hash

\* C14: the stored current_hash of the first block was overwritten while it
\* was the only block, and the same BlockchainLogger then appended a second
\* one: the second block's previous_hash is the digest the first block was
\* given (the cached one), not the stored one, and verify_chain over the two
\* rows reports INVALID_CHAIN at block 2, expecting the stored (overwritten)
\* digest and finding the original one.
C14_CachedTailSurvivesCorruption ==
    (rd.op = "verify_chain" /\ Len(rd.rows) = 2
        /\ rd.rows[1].current_hash = FORGED)
        => /\ rd.rows[2].previous_hash = Recompute(rd.rows[1])
           /\ rd.rows[2].previous_hash # rd.rows[1].current_hash
           /\ rd.ret = Verdict("INVALID_CHAIN", FALSE, 0, 2, FORGED,
                               Recompute(rd.rows[1]))

\* append, overwrite, append, verify_chain: the break is reported at block 2
C14_Witness ==
    /\ rd.op = "verify_chain" /\ rd.rows = blocks /\ Len(blocks) = 2
    /\ blocks[1].current_hash = FORGED /\ tamperLeft = 0
    /\ blocks[2].id = 2 /\ blocks[2].previous_hash = Recompute(blocks[1])
    /\ chain["b1"] = <<2, blocks[2].previous_hash, blocks[2].current_hash>>
    /\ rd.ret.status = "INVALID_CHAIN" /\ rd.ret.block_id = 2
    /\ rd.ret.expected_previous = FORGED

\* C15: on every state of the table, /api/blockchain/verify and verify_chain
\* agree: chain_valid is the valid of verify_chain over the same rows, and
\* block_count is the number of rows verify_chain fetched (its block_count
\* when it finds VALID_CHAIN).
C15_EndpointAgreesWithVerifyChain ==
    rd.op = "verify_blockchain"
        => /\ rd.ret.chain_valid = VerifyChain(rd.rows).valid
           /\ rd.ret.block_count = Len(rd.rows)
           /\ VerifyChain(rd.rows).status = "VALID_CHAIN"
                 => rd.ret.block_count = VerifyChain(rd.rows).block_count

\* the counters are those of a snapshot that does not overcount the table
ConsistentStats(st, rows) ==
    /\ st.total_anomalies <= CountAll(rows)
    /\ st.water_anomalies <= CountDataType(rows, "WATER_ANOMALY")
    /\ st.fund_anomalies <= CountDataType(rows, "FUND_ANOMALY")
    /\ st.critical_count <= CountSeverity(rows, "CRITICAL")
    /\ (\A i \in 1..Len(rows) :
            rows[i].data_type \in {"WATER_ANOMALY", "FUND_ANOMALY"})
          => st.water_anomalies + st.fund_anomalies = st.total_anomalies

\* C16: what get_stats hands out is at every moment a consistent snapshot
\* that never overcounts: each counter is at most the count of the matching
\* blocks stored, and water_anomalies + fund_anomalies = total_anomalies
\* when every block is a water or a fund anomaly, also while update_stats
\* and appends run.
C16_StatsAreAConsistentSnapshot ==
    /\ ConsistentStats(stats, blocks)
    /\ rd.op = "get_stats" => ConsistentStats(rd.ret, blocks)
====
